---- MODULE Spec2Model ----
(***************************************************************************)
(* Model of src/XISIC.py: the batch orchestrator convert_csvs_to_netcdf    *)
(* (with _normalize_filter and the per-file pipeline as seen from the      *)
(* orchestrator) and the variable-name sanitizer clean_variable_names.     *)
(*                                                                         *)
(* A Python str is modelled as a sequence of atoms.  For file names an     *)
(* atom is a token ("INMET", "_", "CO", ".CSV", ...); for variable labels  *)
(* an atom is one character.  str.replace, str.split, str.upper, re.sub    *)
(* and str.strip are computed on these sequences.                          *)
(***************************************************************************)
EXTENDS Integers, Sequences, FiniteSets, TLC

VARIABLES
    dirExists,       \* csv_path.exists()
    dirFiles,        \* names in csv_folder, in the order glob returns them
    content,         \* name -> what the file's bytes make the pipeline do
    preamble,        \* name -> the file's first lines, each split at ';'
    netcdfDir,       \* the NETCDF folder exists
    disk,            \* output path -> [writes, complete, ds] for existing outputs
    region, uf, wmo_code, all_files, skip_existing,   \* arguments of the call
    pc,              \* position of the call
    all_csv_files, filtered_files, i,
    saved_paths, failed_files, skipped_files, converted_files,
    raised,          \* an exception left convert_csvs_to_netcdf
    invoked,         \* paths the per-file pipeline was invoked on in this call
    result,          \* the NetCDFConversionResult returned by this call
    prev,            \* the result the previous call returned
    runs,            \* number of calls started
    data_vars,       \* argument of clean_variable_names: <<label, data>> pairs
    cleaned_vars,    \* its return value
    recleaned_vars,  \* clean_variable_names applied to its own return value
    cpc,             \* position of the sanitizer run
    rows,            \* the data lines of one file: [date, hour_utc, value]
    df,              \* the DataFrame the pipeline works on
    met_variables,   \* labels of the variable columns left in df
    dates, hours,    \* the two axes
    var_matrix,      \* the grid of the variable column
    gpc,             \* position of the pipeline run on the table
    calls            \* invocation -> locals of a concurrent batch call

batchVars == <<dirExists, dirFiles, content, preamble, netcdfDir, disk,
               region, uf, wmo_code, all_files, skip_existing, pc,
               all_csv_files, filtered_files, i,
               saved_paths, failed_files, skipped_files, converted_files,
               raised, invoked, result, prev, runs>>
cleanVars == <<data_vars, cleaned_vars, recleaned_vars, cpc>>
gridVars == <<rows, df, met_variables, dates, hours, var_matrix, gpc>>
vars == <<batchVars, cleanVars, gridVars, calls>>

\* ------------------------------------------------------------------ bounds
MaxFiles == 3       \* files in the folder
MaxRuns == 2        \* calls of the batch over the same folder
MaxBad == 1         \* files in the folder on which the pipeline raises
MaxTotalLen == 3    \* characters in the labels of one data_vars
MaxVars == 2        \* entries of data_vars
MaxRows == 2        \* data lines of the table
MaxShared == 2      \* files in the folder concurrent invocations share

None == [t |-> "None"]
Str(s) == [t |-> "str", v |-> s]
List(l) == [t |-> "list", v |-> l]

Range(s) == {s[k] : k \in DOMAIN s}

\* ------------------------------------------------------- string primitives
\* str.upper() on one atom of a file name or filter value
UpperAtom(a) ==
    CASE a = "co" -> "CO"
      [] a = "df" -> "DF"
      [] a = "se" -> "SE"
      [] a = "sp" -> "SP"
      [] a = "mg" -> "MG"
      [] a = "a001" -> "A001"
      [] a = "a701" -> "A701"
      [] a = "a502" -> "A502"
      [] a = ".nc" -> ".NC"
      [] a = ".txt" -> ".TXT"
      [] a = "Unknown" -> "UNKNOWN"
      [] OTHER -> a

\* str.upper()
Upper(s) == [k \in DOMAIN s |-> UpperAtom(s[k])]

RECURSIVE Replace(_, _, _)
\* str.replace(old, new) where old is one atom and new a string
Replace(s, old, new) ==
    IF s = <<>> THEN <<>>
    ELSE (IF Head(s) = old THEN new ELSE <<Head(s)>>) \o Replace(Tail(s), old, new)

RECURSIVE SplitFrom(_, _, _)
SplitFrom(s, sep, cur) ==
    IF s = <<>> THEN <<cur>>
    ELSE IF Head(s) = sep THEN <<cur>> \o SplitFrom(Tail(s), sep, <<>>)
    ELSE SplitFrom(Tail(s), sep, Append(cur, Head(s)))

\* str.split(sep)
Split(s, sep) == SplitFrom(s, sep, <<>>)

\* ------------------------------------------------------------ file system
\* Names a directory listing is drawn from, in the order glob yields them.
NameDF == <<"INMET", "_", "CO", "_", "DF", "_", "A001", "_", "BRASILIA", ".CSV">>
NameSP == <<"INMET", "_", "se", "_", "sp", "_", "a701", "_", "SAOPAULO", ".CSV">>
NameMG == <<"INMET", "_", "SE", "_", "MG", "_", "A502", "_", "BARBACENA", ".CSV">>
NameShort == <<"INMET", "_", "CO", "_", "DF", "_", "A001", ".CSV">>
NameTwiceCSV == <<"INMET", "_", "N", "_", "PA", "_", "A201", "_", "BELEM", ".CSV", ".CSV">>
NameNcCSV == <<"INMET", "_", "N", "_", "PA", "_", "A201", "_", "BELEM", ".nc", ".CSV">>
NameOther == <<"LEIAME", ".txt">>
NamePool == <<NameDF, NameSP, NameMG, NameShort, NameTwiceCSV, NameNcCSV, NameOther>>

\* What a file's bytes make parse_inmet_csv_to_netcdf_robust do:
\*   "valid"      the dataset is built and written
\*   "no_columns" no date/hour column: ValueError before anything is written
\*   "unwritable" the dataset is built but to_netcdf raises after it created
\*                the output file (e.g. a variable name NetCDF rejects)
Kinds == {"valid", "no_columns", "unwritable"}

RECURSIVE Pick(_, _)
\* the subsequence of NamePool at the positions S, from position k on
Pick(S, k) ==
    IF k > Len(NamePool) THEN <<>>
    ELSE (IF k \in S THEN <<NamePool[k]>> ELSE <<>>) \o Pick(S, k + 1)

Listings == {Pick(S, 1) : S \in {T \in SUBSET DOMAIN NamePool : Cardinality(T) <= MaxFiles}}

CsvPath(name) == <<"CSV", name>>
\* Path(p).name
PathName(p) == p[2]

\* glob.glob(csv_path / "INMET_*.CSV")
MatchesPattern(name) ==
    /\ Len(name) >= 3
    /\ name[1] = "INMET"
    /\ name[2] = "_"
    /\ name[Len(name)] = ".CSV"

Glob(listing) ==
    LET matching == SelectSeq(listing, MatchesPattern)
    IN [k \in DOMAIN matching |-> CsvPath(matching[k])]

\* netcdf_folder / filename.replace('.CSV', '.nc')
OutputPath(csv_file_path) ==
    <<"NETCDF", Replace(PathName(csv_file_path), ".CSV", <<".nc">>)>>

\* ---------------------------------------------------------------- filters
\* mutant of _normalize_filter: the values are not uppercased
_normalize_filter_keeps_case(filter_value) ==
    IF filter_value.t = "None" THEN None
    ELSE IF filter_value.t = "str" THEN List(<<filter_value.v>>)
    ELSE List(filter_value.v)

\* _normalize_filter
_normalize_filter(filter_value) ==
    IF filter_value.t = "None" THEN None
    ELSE IF filter_value.t = "str" THEN List(<<Upper(filter_value.v)>>)
    ELSE List([k \in DOMAIN filter_value.v |-> Upper(filter_value.v[k])])

\* truth value of an Optional[List[str]]
Truthy(f) == f.t = "list" /\ Len(f.v) > 0

\* filename.replace('.CSV', '').split('_')
Parts(csv_file_path) == Split(Replace(PathName(csv_file_path), ".CSV", <<>>), "_")

\* include_file after the three filter tests
IncludeFile(parts, region_filter, uf_filter, wmo_filter) ==
    /\ ~(Truthy(region_filter) /\ Upper(parts[2]) \notin Range(region_filter.v))
    /\ ~(Truthy(uf_filter) /\ Upper(parts[3]) \notin Range(uf_filter.v))
    /\ ~(Truthy(wmo_filter) /\ Upper(parts[4]) \notin Range(wmo_filter.v))

\* the test deciding whether a candidate goes into filtered_files
Selected(csv_file_path, region_filter, uf_filter, wmo_filter) ==
    /\ Len(Parts(csv_file_path)) >= 5
    /\ IncludeFile(Parts(csv_file_path), region_filter, uf_filter, wmo_filter)

FilterFiles(files, all, r, u, w) ==
    IF all THEN files
    ELSE SelectSeq(files, LAMBDA f :
             Selected(f, _normalize_filter(r), _normalize_filter(u), _normalize_filter(w)))

\* mutant of FilterText: the uf filter is left out of filters_applied
FilterTextWithoutUf(r, u, w) ==
    LET fa == (IF Truthy(_normalize_filter(r))
                 THEN <<[field |-> "region", values |-> _normalize_filter(r).v]>> ELSE <<>>)
              \o (IF Truthy(_normalize_filter(w))
                 THEN <<[field |-> "wmo_code", values |-> _normalize_filter(w).v]>> ELSE <<>>)
    IN IF fa # <<>> THEN fa ELSE <<[field |-> "nenhum", values |-> <<>>]>>

\* filters_applied, or "nenhum" when it is empty
FilterText(r, u, w) ==
    LET fa == (IF Truthy(_normalize_filter(r))
                 THEN <<[field |-> "region", values |-> _normalize_filter(r).v]>> ELSE <<>>)
              \o (IF Truthy(_normalize_filter(u))
                 THEN <<[field |-> "uf", values |-> _normalize_filter(u).v]>> ELSE <<>>)
              \o (IF Truthy(_normalize_filter(w))
                 THEN <<[field |-> "wmo_code", values |-> _normalize_filter(w).v]>> ELSE <<>>)
    IN IF fa # <<>> THEN fa ELSE <<[field |-> "nenhum", values |-> <<>>]>>

\* --------------------------------------------------------------- results
\* NetCDFConversionResult with its field defaults
NetCDFConversionResult(folder, ok, msg, conv, skip, total, saved, failed) ==
    [folder_path |-> folder, success |-> ok, message |-> msg,
     converted_files |-> conv, skipped_files |-> skip, total_files_found |-> total,
     saved_paths |-> saved, failed_files |-> failed]

ResultDirMissing ==
    NetCDFConversionResult("CSV", FALSE, [kind |-> "pasta_nao_encontrada", detail |-> <<>>],
                           0, 0, 0, <<>>, <<>>)

ResultNoCandidates ==
    NetCDFConversionResult("CSV", FALSE, [kind |-> "nenhum_csv_encontrado", detail |-> <<>>],
                           0, 0, 0, <<>>, <<>>)

ResultNoMatch(total, r, u, w) ==
    NetCDFConversionResult("CSV", FALSE,
                           [kind |-> "nenhum_com_os_filtros", detail |-> FilterText(r, u, w)],
                           0, 0, total, <<>>, <<>>)

\* mutant of Success: skipped files do not count
SuccessConvertedOnly(conv, skipped) == conv > 0

\* success = total_processed > 0
Success(conv, skipped) == conv + Len(skipped) > 0

FinalMessage(conv, skipped, failed) ==
    IF Success(conv, skipped)
    THEN [kind |-> "concluido",
          detail |-> <<conv>> \o (IF skipped # <<>> THEN <<Len(skipped)>> ELSE <<>>)
                              \o (IF failed # <<>> THEN <<Len(failed)>> ELSE <<>>)]
    ELSE [kind |-> "nenhum_processado", detail |-> <<Len(failed)>>]

\* mutant of ResultFinal: total_files_found counts the selected files
ResultFinalCountsSelected(total, conv, skipped, saved, failed) ==
    NetCDFConversionResult("NETCDF", Success(conv, skipped),
                           FinalMessage(conv, skipped, failed),
                           conv, Len(skipped), conv + Len(skipped) + Len(failed), saved,
                           [k \in DOMAIN failed |-> PathName(failed[k])])

\* lines 789-798: the result returned after the loop
ResultFinal(total, conv, skipped, saved, failed) ==
    NetCDFConversionResult("NETCDF", Success(conv, skipped),
                           FinalMessage(conv, skipped, failed),
                           conv, Len(skipped), total, saved,
                           [k \in DOMAIN failed |-> PathName(failed[k])])

\* ------------------------------------------------------ per-file pipeline
\* parse_inmet_csv_to_netcdf_robust(csv_file_path, output_netcdf_path) as the
\* orchestrator sees it: the exception it raises ("none": it returns the
\* dataset) and what it leaves at the output path.
Pipeline(kind) ==
    CASE kind = "valid" -> [exc |-> "none", wrote |-> "complete"]
      [] kind = "no_columns" -> [exc |-> "ValueError", wrote |-> "nothing"]
      [] kind = "unwritable" -> [exc |-> "RuntimeError", wrote |-> "partial"]

\* to_netcdf opens the output path for writing: the file is created or
\* truncated, and holds the dataset ds when the write completes
WriteOutput(d, path, wrote, ds) ==
    IF wrote = "nothing" THEN d
    ELSE [q \in DOMAIN d \cup {path} |->
            IF q = path
            THEN [writes |-> (IF path \in DOMAIN d THEN d[path].writes ELSE 0) + 1,
                  complete |-> (wrote = "complete"),
                  ds |-> ds]
            ELSE d[q]]

\* ------------------------------------------------------- station identity
\* number of preamble lines the pipeline reads: "for i in range(8)"
PreambleLines == 8

\* a preamble line split at ';': its fields, each a string
Line(key, value) == <<key, value>>

\* the eight lines before the table; regionLine is the first of them
MakePreamble(regionLine, ufValue, wmoValue) ==
    << regionLine,
       Line(<<"UF", ":">>, ufValue),
       Line(<<"ESTACAO", ":">>, <<"BRASILIA">>),
       Line(<<"CODIGO (WMO)", ":">>, wmoValue),
       Line(<<"LATITUDE", ":">>, <<"-15,78">>),
       Line(<<"LONGITUDE", ":">>, <<"-47,92">>),
       Line(<<"ALTITUDE", ":">>, <<"1160,96">>),
       Line(<<"DATA DE FUNDACAO", ":">>, <<"07/05/00">>) >>

StandardPreamble == MakePreamble(Line(<<"REGIAO", ":">>, <<"CO">>), <<"DF">>, <<"A001">>)

\* preambles whose values are in either case, and one whose region line has
\* no ';' and so a single field
Preambles ==
    {MakePreamble(rl, u, w) :
        rl \in {Line(<<"REGIAO", ":">>, <<"CO">>), Line(<<"REGIAO", ":">>, <<"co">>),
                << <<"REGIAO", ":", "CO">> >>},
        u \in {<<"DF">>, <<"df">>},
        w \in {<<"A001">>, <<"a001">>}}

\* metadata[key] = value
MetaPut(m, key, value) ==
    [x \in DOMAIN m \cup {key} |-> IF x = key THEN value ELSE m[x]]

RECURSIVE ReadMetadata(_, _, _)
\* lines 340-345: the dict built from lines n..PreambleLines on top of m
ReadMetadata(lines, n, m) ==
    IF n > PreambleLines THEN m
    ELSE LET parts == lines[n]
         IN ReadMetadata(lines, n + 1,
                         IF Len(parts) >= 2
                         THEN MetaPut(m, Replace(parts[1], ":", <<>>), parts[2])
                         ELSE m)

\* metadata.get(key, default)
Get(m, key, default) == IF key \in DOMAIN m THEN m[key] ELSE default

\* Path(p).stem: the name without its last suffix
Stem(csv_file_path) ==
    LET name == PathName(csv_file_path)
    IN IF Len(name) > 1 /\ name[Len(name)] \in {".CSV", ".nc", ".txt"}
       THEN SubSeq(name, 1, Len(name) - 1)
       ELSE name

\* mutant of ExtractIdentity: the fallback does not read the preamble
ExtractIdentityUnknown(csv_file_path, metadata) ==
    LET file_parts == Split(Stem(csv_file_path), "_")
    IN IF Len(file_parts) >= 5
       THEN [region |-> file_parts[2], uf |-> file_parts[3],
             wmo_code |-> file_parts[4], station_name |-> file_parts[5]]
       ELSE [region |-> <<"Unknown">>, uf |-> <<"Unknown">>,
             wmo_code |-> <<"Unknown">>, station_name |-> <<"Unknown">>]

\* lines 347-361: region, uf, wmo_code and station_name of the file
ExtractIdentity(csv_file_path, metadata) ==
    LET file_parts == Split(Stem(csv_file_path), "_")
    IN IF Len(file_parts) >= 5
       THEN [region |-> file_parts[2], uf |-> file_parts[3],
             wmo_code |-> file_parts[4], station_name |-> file_parts[5]]
       ELSE [region |-> Get(metadata, <<"REGIAO">>, <<"Unknown">>),
             uf |-> Get(metadata, <<"UF">>, <<"Unknown">>),
             wmo_code |-> Get(metadata, <<"CODIGO (WMO)">>, <<"Unknown">>),
             station_name |-> Get(metadata, <<"ESTACAO">>, <<"Unknown">>)]

\* lines 498-528: the identity coordinates and global attributes of the dataset
Dataset(id) ==
    [coords |-> [region |-> <<id.region>>, uf |-> <<id.uf>>,
                 wmo_code |-> <<id.wmo_code>>],
     attrs |-> [station |-> id.station_name, region |-> id.region,
                uf |-> id.uf, wmo_code |-> id.wmo_code]]

\* the dataset the pipeline builds for a file with the given preamble
ParseIdentity(csv_file_path, lines) ==
    Dataset(ExtractIdentity(csv_file_path, ReadMetadata(lines, 1, <<>>)))

\* output_path.exists()
Exists(d, path) == path \in DOMAIN d

\* mutant of Caught: "except ValueError" in place of "except Exception"
CaughtValueErrorOnly(exc) == exc = "ValueError"

\* "except Exception": the exceptions the handler of the loop body catches
Caught(exc) == exc \in {"ValueError", "KeyError", "IndexError", "RuntimeError"}

\* mutant of RecordFailure: the handler swallows the exception and records nothing
RecordFailureDropped(failed, csv_file_path) == failed

\* the handler: failed_files.append(csv_file_path)
RecordFailure(failed, csv_file_path) == Append(failed, csv_file_path)

\* ------------------------------------------------------------- arguments
RegionArgs == {None, List(<< <<"CO">>, <<"se">> >>)}
UfArgs == {None, Str(<<"df">>), Str(<<"DF">>), List(<< <<"DF">>, <<"sp">> >>), List(<<>>)}
WmoArgs == {None, Str(<<"a001">>)}

\* ------------------------------------------------------------------ Init
InitClean ==
    /\ data_vars = <<>>
    /\ cleaned_vars = <<>>
    /\ recleaned_vars = <<>>
    /\ cpc = "off"

InitGridOff ==
    /\ rows = <<>> /\ df = <<>> /\ met_variables = <<>>
    /\ dates = <<>> /\ hours = <<>> /\ var_matrix = <<>>
    /\ gpc = "off"
    /\ calls = <<>>

InitCall ==
    /\ netcdfDir = FALSE
    /\ disk = <<>>
    /\ region = None /\ uf = None /\ wmo_code = None
    /\ all_files = FALSE /\ skip_existing = TRUE
    /\ pc = "idle"
    /\ all_csv_files = <<>> /\ filtered_files = <<>> /\ i = 1
    /\ saved_paths = <<>> /\ failed_files = <<>> /\ skipped_files = <<>>
    /\ converted_files = 0
    /\ raised = FALSE
    /\ invoked = <<>>
    /\ result = None
    /\ prev = None
    /\ runs = 0

\* a folder that may be absent, its listing, and the content of each
\* candidate, of which at most MaxBad make the pipeline raise
Init ==
    /\ dirExists \in BOOLEAN
    /\ dirFiles \in (IF dirExists THEN Listings ELSE {<<>>})
    /\ content \in {c \in [{n \in Range(dirFiles) : MatchesPattern(n)} -> Kinds] :
                        Cardinality({n \in DOMAIN c : c[n] # "valid"}) <= MaxBad}
    /\ preamble = [n \in DOMAIN content |-> StandardPreamble]
    /\ InitCall
    /\ InitClean
    /\ InitGridOff

\* a folder with one candidate, named with five segments in either case or
\* with four, and a preamble whose values are in either case
InitIdentity ==
    /\ dirExists = TRUE
    /\ dirFiles \in {<<NameDF>>, <<NameSP>>, <<NameShort>>}
    /\ content \in [Range(dirFiles) -> Kinds]
    /\ preamble \in [Range(dirFiles) -> Preambles]
    /\ InitCall
    /\ InitClean
    /\ InitGridOff

\* ---------------------------------------------------------------- actions
\* lines 611-637: validate the folder, create NETCDF, enumerate candidates
Start(r, u, w, a, s) ==
    /\ runs < MaxRuns
    /\ runs' = runs + 1
    /\ region' = r /\ uf' = u /\ wmo_code' = w /\ all_files' = a /\ skip_existing' = s
    /\ filtered_files' = <<>> /\ i' = 1
    /\ saved_paths' = <<>> /\ failed_files' = <<>> /\ skipped_files' = <<>>
    /\ converted_files' = 0
    /\ invoked' = <<>>
    /\ IF ~dirExists
       THEN /\ result' = ResultDirMissing
            /\ pc' = "returned"
            /\ UNCHANGED <<netcdfDir, all_csv_files>>
       ELSE /\ netcdfDir' = TRUE
            /\ all_csv_files' = Glob(dirFiles)
            /\ IF Glob(dirFiles) = <<>>
               THEN result' = ResultNoCandidates /\ pc' = "returned"
               ELSE result' = None /\ pc' = "select"
    /\ UNCHANGED <<dirExists, dirFiles, content, preamble, disk, raised, cleanVars, gridVars, calls>>

\* the first call of convert_csvs_to_netcdf; all_files makes the call ignore
\* its filters, so it is tried with no filter and with one filter only
Call ==
    /\ pc = "idle"
    /\ \E r \in RegionArgs, u \in UfArgs, w \in WmoArgs, a \in BOOLEAN, s \in BOOLEAN :
          /\ a => (r = None /\ w = None /\ u \in {None, Str(<<"df">>)})
          /\ Start(r, u, w, a, s)
    /\ prev' = None

\* the batch is invoked again over the same folder with the same arguments
Rerun ==
    /\ pc = "returned"
    /\ Start(region, uf, wmo_code, all_files, skip_existing)
    /\ prev' = result

\* lines 641-704: normalise the filters, select the files
SelectFiles ==
    /\ pc = "select"
    /\ filtered_files' = FilterFiles(all_csv_files, all_files, region, uf, wmo_code)
    /\ IF filtered_files' = <<>>
       THEN /\ result' = ResultNoMatch(Len(all_csv_files), region, uf, wmo_code)
            /\ pc' = "returned"
       ELSE /\ pc' = "loop"
            /\ UNCHANGED result
    /\ UNCHANGED <<dirExists, dirFiles, content, preamble, netcdfDir, disk,
                   region, uf, wmo_code, all_files, skip_existing,
                   all_csv_files, i, saved_paths, failed_files, skipped_files,
                   converted_files, raised, invoked, prev, runs, cleanVars, gridVars, calls>>

\* mutant of SkipExisting: the skipped file's output path is not listed
SkipExistingNotListed ==
    /\ pc = "loop" /\ i <= Len(filtered_files)
    /\ Exists(disk, OutputPath(filtered_files[i])) /\ skip_existing
    /\ skipped_files' = Append(skipped_files, filtered_files[i])
    /\ i' = i + 1
    /\ UNCHANGED <<dirExists, dirFiles, content, preamble, netcdfDir, disk,
                   region, uf, wmo_code, all_files, skip_existing, pc,
                   all_csv_files, filtered_files, failed_files, saved_paths,
                   converted_files, raised, invoked, result, prev, runs, cleanVars, gridVars, calls>>

\* lines 713-731: one loop iteration taking the skip-existing branch
SkipExisting ==
    /\ pc = "loop" /\ i <= Len(filtered_files)
    /\ Exists(disk, OutputPath(filtered_files[i])) /\ skip_existing
    /\ skipped_files' = Append(skipped_files, filtered_files[i])
    /\ saved_paths' = Append(saved_paths, OutputPath(filtered_files[i]))
    /\ i' = i + 1
    /\ UNCHANGED <<dirExists, dirFiles, content, preamble, netcdfDir, disk,
                   region, uf, wmo_code, all_files, skip_existing, pc,
                   all_csv_files, filtered_files, failed_files,
                   converted_files, raised, invoked, result, prev, runs, cleanVars, gridVars, calls>>

\* lines 713-767: one loop iteration that invokes the per-file pipeline
ConvertFile ==
    /\ pc = "loop" /\ i <= Len(filtered_files)
    /\ ~(Exists(disk, OutputPath(filtered_files[i])) /\ skip_existing)
    /\ LET f == filtered_files[i]
           out == OutputPath(f)
           run == Pipeline(content[PathName(f)])
       IN /\ invoked' = Append(invoked, f)
          /\ disk' = WriteOutput(disk, out, run.wrote,
                                 ParseIdentity(f, preamble[PathName(f)]))
          /\ IF run.exc = "none"
             THEN /\ IF Exists(disk', out)
                     THEN /\ saved_paths' = Append(saved_paths, out)
                          /\ converted_files' = converted_files + 1
                          /\ UNCHANGED failed_files
                     ELSE /\ failed_files' = Append(failed_files, f)
                          /\ UNCHANGED <<saved_paths, converted_files>>
                  /\ i' = i + 1
                  /\ UNCHANGED <<pc, raised>>
             ELSE IF Caught(run.exc)
             THEN /\ failed_files' = RecordFailure(failed_files, f)
                  /\ i' = i + 1
                  /\ UNCHANGED <<saved_paths, converted_files, pc, raised>>
             ELSE /\ raised' = TRUE
                  /\ pc' = "raised"
                  /\ UNCHANGED <<saved_paths, converted_files, failed_files, i>>
    /\ UNCHANGED <<dirExists, dirFiles, content, preamble, netcdfDir,
                   region, uf, wmo_code, all_files, skip_existing,
                   all_csv_files, filtered_files, skipped_files,
                   result, prev, runs, cleanVars, gridVars, calls>>

\* lines 769-798: compile and return the final result
Return ==
    /\ pc = "loop" /\ i > Len(filtered_files)
    /\ result' = ResultFinal(Len(all_csv_files), converted_files, skipped_files,
                             saved_paths, failed_files)
    /\ pc' = "returned"
    /\ UNCHANGED <<dirExists, dirFiles, content, preamble, netcdfDir, disk,
                   region, uf, wmo_code, all_files, skip_existing,
                   all_csv_files, filtered_files, i,
                   saved_paths, failed_files, skipped_files, converted_files,
                   raised, invoked, prev, runs, cleanVars, gridVars, calls>>

Next == Call \/ Rerun \/ SelectFiles \/ SkipExisting \/ ConvertFile \/ Return

Spec == Init /\ [][Next]_vars

\* the batch over a folder holding one file, for the station identity
SpecIdentity == InitIdentity /\ [][Next]_vars

\* ------------------------------------------------- clean_variable_names
\* Characters the raw labels are drawn from: '/', a character replaced by
\* '_', the degree sign, a superscript, '_', a letter, a digit and a
\* character the substitution list does not name.
Alphabet == {"/", " ", "°", "²", "_", "a", "1", "%"}

AsciiLetters ==
    {"a", "b", "c", "d", "e", "f", "g", "h", "i", "j", "k", "l", "m",
     "n", "o", "p", "q", "r", "s", "t", "u", "v", "w", "x", "y", "z",
     "A", "B", "C", "D", "E", "F", "G", "H", "I", "J", "K", "L", "M",
     "N", "O", "P", "Q", "R", "S", "T", "U", "V", "W", "X", "Y", "Z"}
AsciiDigits == {"0", "1", "2", "3", "4", "5", "6", "7", "8", "9"}

\* str.isdigit() of one character
IsDigit(c) == c \in AsciiDigits \cup {"²", "³"}

\* the chain of str.replace calls, in the order of the source
Substitute(var_name) ==
    Replace(Replace(Replace(Replace(Replace(Replace(Replace(Replace(Replace(Replace(
        var_name,
        "/", <<"_", "p", "e", "r", "_">>),
        "(", <<"_">>),
        ")", <<"_">>),
        "°", <<"d", "e", "g">>),
        " ", <<"_">>),
        ",", <<"_">>),
        "-", <<"_">>),
        ".", <<"_">>),
        "²", <<"2">>),
        "³", <<"3">>)

RECURSIVE CollapseUnderscores(_)
\* re.sub('_+', '_', clean_name)
CollapseUnderscores(s) ==
    IF Len(s) < 2 THEN s
    ELSE IF s[1] = "_" /\ s[2] = "_" THEN CollapseUnderscores(Tail(s))
    ELSE <<s[1]>> \o CollapseUnderscores(Tail(s))

RECURSIVE StripLeft(_)
StripLeft(s) == IF s # <<>> /\ Head(s) = "_" THEN StripLeft(Tail(s)) ELSE s

RECURSIVE StripRight(_)
StripRight(s) ==
    IF s # <<>> /\ s[Len(s)] = "_" THEN StripRight(SubSeq(s, 1, Len(s) - 1)) ELSE s

\* clean_name.strip('_')
StripUnderscores(s) == StripRight(StripLeft(s))

\* if clean_name and clean_name[0].isdigit(): 'var_' + clean_name
PrefixDigit(s) ==
    IF s # <<>> /\ IsDigit(s[1]) THEN <<"v", "a", "r", "_">> \o s ELSE s

\* if not clean_name: 'unknown_variable'
Placeholder(s) ==
    IF s = <<>>
    THEN <<"u", "n", "k", "n", "o", "w", "n", "_", "v", "a", "r", "i", "a", "b", "l", "e">>
    ELSE s

\* mutant of clean_name: underscores are stripped before the substitutions
clean_name_strip_first(var_name) ==
    Placeholder(PrefixDigit(CollapseUnderscores(Substitute(StripUnderscores(var_name)))))

\* the body of the loop of clean_variable_names, for one label
clean_name(var_name) ==
    Placeholder(PrefixDigit(StripUnderscores(CollapseUnderscores(Substitute(var_name)))))

\* d[key] = value on an insertion-ordered dict held as <<key, value>> pairs
DictSet(d, key, value) ==
    IF \E k \in DOMAIN d : d[k][1] = key
    THEN [k \in DOMAIN d |-> IF d[k][1] = key THEN <<key, value>> ELSE d[k]]
    ELSE Append(d, <<key, value>>)

RECURSIVE CleanInto(_, _)
CleanInto(cleaned, items) ==
    IF items = <<>> THEN cleaned
    ELSE CleanInto(DictSet(cleaned, clean_name(Head(items)[1]), Head(items)[2]),
                   Tail(items))

\* clean_variable_names(data_vars)
clean_variable_names(dv) == CleanInto(<<>>, dv)

LabelsUpTo(n) == UNION {[1..k -> Alphabet] : k \in 0..n}

RECURSIVE TotalLen(_)
\* the characters used by the labels of data_vars
TotalLen(dv) == IF dv = <<>> THEN 0 ELSE Len(Head(dv)[1]) + TotalLen(Tail(dv))

InitSanitize ==
    /\ dirExists = FALSE
    /\ dirFiles = <<>>
    /\ content = <<>>
    /\ preamble = <<>>
    /\ InitCall
    /\ data_vars = <<>>
    /\ cleaned_vars = <<>>
    /\ recleaned_vars = <<>>
    /\ cpc = "build"
    /\ InitGridOff

\* lines 471-493: data_vars[var] = (dims, var_array) for one more column; the
\* column labels are distinct and the grid is named by the column's position
AddVariable ==
    /\ cpc = "build"
    /\ Len(data_vars) < MaxVars
    /\ \E label \in LabelsUpTo(MaxTotalLen - TotalLen(data_vars)) :
          /\ \A k \in DOMAIN data_vars : data_vars[k][1] # label
          /\ data_vars' = Append(data_vars, <<label, Len(data_vars) + 1>>)
    /\ UNCHANGED <<batchVars, gridVars, calls, cleaned_vars, recleaned_vars, cpc>>

\* line 496: data_vars = clean_variable_names(data_vars)
CleanNames ==
    /\ cpc = "build"
    /\ cleaned_vars' = clean_variable_names(data_vars)
    /\ cpc' = "cleaned"
    /\ UNCHANGED <<batchVars, gridVars, calls, data_vars, recleaned_vars>>

\* clean_variable_names applied to its own result
Reclean ==
    /\ cpc = "cleaned"
    /\ recleaned_vars' = clean_variable_names(cleaned_vars)
    /\ cpc' = "recleaned"
    /\ UNCHANGED <<batchVars, gridVars, calls, data_vars, cleaned_vars>>

NextSanitize == AddVariable \/ CleanNames \/ Reclean

SpecSanitize == InitSanitize /\ [][NextSanitize]_vars

\* ------------------------------------------------- the table and the grid
\* A data line has a date field, a "Hora UTC" field and one variable field.
\* The date is one token; the hour and the value are strings of tokens.
DatePool == {"2024/01/15", "2024/01/16"}
HourPool == {<<"00", "00", " UTC">>, <<"00", "30", " UTC">>, <<"01", "00", " UTC">>,
             <<"00", ":", "00">>}
ValuePool == {<<"1", "2">>, <<"1", ",", "5">>, <<"x">>, <<>>, <<"-9999">>}

\* na_values of read_csv
NaValues == {<<>>, <<" ">>, <<"NULL">>, <<"null">>, <<"-9999">>}

NaN == [t |-> "nan"]
Float(v) == [t |-> "float", v |-> v]
Text(s) == [t |-> "str", v |-> s]

DigitValue(c) == CASE c = "1" -> 1 [] c = "2" -> 2 [] c = "5" -> 5 [] OTHER -> -1
IsDigitText(c) == DigitValue(c) >= 0

\* the number a text denotes when dec is the decimal separator, in tenths:
\* digits, or a digit, the separator and a digit; ok is false for other texts
ToFloat(s, dec) ==
    IF Len(s) = 1 /\ IsDigitText(s[1])
    THEN [ok |-> TRUE, v |-> 10 * DigitValue(s[1])]
    ELSE IF Len(s) = 2 /\ IsDigitText(s[1]) /\ IsDigitText(s[2])
    THEN [ok |-> TRUE, v |-> 10 * (10 * DigitValue(s[1]) + DigitValue(s[2]))]
    ELSE IF Len(s) = 3 /\ IsDigitText(s[1]) /\ s[2] = dec /\ IsDigitText(s[3])
    THEN [ok |-> TRUE, v |-> 10 * DigitValue(s[1]) + DigitValue(s[3])]
    ELSE [ok |-> FALSE, v |-> 0]

\* lines 378-387: the variable column as read_csv(decimal=',', na_values=...)
\* types it: numbers when every value that is not missing parses as a number,
\* otherwise the texts as they stand in the file; a missing value is NaN
ReadColumn(lines) ==
    LET numeric == \A k \in DOMAIN lines :
                      lines[k].value \in NaValues \/ ToFloat(lines[k].value, ",").ok
    IN [k \in DOMAIN lines |->
          IF lines[k].value \in NaValues THEN NaN
          ELSE IF numeric THEN Float(ToFloat(lines[k].value, ",").v)
          ELSE Text(lines[k].value)]

\* line 401: dropna(axis=1, how='all') leaves the column unless all is NaN
KeepsColumn(column) == \E k \in DOMAIN column : column[k] # NaN

\* lines 425-429: the hour text without ' UTC' and 'UTC'
HourClean(hour_utc) == Replace(Replace(hour_utc, " UTC", <<>>), "UTC", <<>>)

HourValue(a) == CASE a = "00" -> 0 [] a = "01" -> 1 [] OTHER -> -1
MinuteValue(a) == CASE a = "00" -> 0 [] a = "30" -> 30 [] OTHER -> -1
DateValue(a) == CASE a = "2024/01/15" -> 15 [] a = "2024/01/16" -> 16 [] OTHER -> -1

NaT == [t |-> "NaT"]

\* lines 433-437: to_datetime(date + ' ' + hour_clean, format='%Y/%m/%d %H%M',
\* errors='coerce'); the date is the day of January 2024
ToDatetime(date, hour_clean) ==
    IF /\ DateValue(date) >= 0
       /\ Len(hour_clean) = 2
       /\ HourValue(hour_clean[1]) >= 0
       /\ MinuteValue(hour_clean[2]) >= 0
    THEN [t |-> "datetime", date |-> DateValue(date),
          hour |-> HourValue(hour_clean[1]), minute |-> MinuteValue(hour_clean[2])]
    ELSE NaT

RECURSIVE SortedSeq(_)
\* sorted(...) of a set of numbers
SortedSeq(S) ==
    IF S = {} THEN <<>>
    ELSE LET m == CHOOSE x \in S : \A y \in S : x <= y
         IN <<m>> \o SortedSeq(S \ {m})

\* lines 479-482: the row df.loc[mask, var].iloc[0] reads, mask not empty
FirstMatch(frame, date, hour) ==
    LET mask == {k \in DOMAIN frame :
                    frame[k].date_only = date /\ frame[k].hour_only = hour}
    IN CHOOSE k \in mask : \A m \in mask : k <= m

\* lines 478-487: the cell of var_matrix for (date, hour)
Cell(frame, date, hour) ==
    IF \E k \in DOMAIN frame : frame[k].date_only = date /\ frame[k].hour_only = hour
    THEN LET value == frame[FirstMatch(frame, date, hour)].value
         IN IF value.t = "float" THEN value
            ELSE IF value.t = "str" /\ value.v # <<>> /\ ToFloat(value.v, ".").ok
            THEN Float(ToFloat(value.v, ".").v)
            ELSE NaN
    ELSE NaN

\* the pipeline is about to read a table whose lines are still being drawn
InitGrid ==
    /\ dirExists = FALSE
    /\ dirFiles = <<>>
    /\ content = <<>>
    /\ preamble = <<>>
    /\ InitCall
    /\ InitClean
    /\ rows = <<>> /\ df = <<>> /\ met_variables = <<>>
    /\ dates = <<>> /\ hours = <<>> /\ var_matrix = <<>>
    /\ gpc = "build"
    /\ calls = <<>>

\* one more data line in the file
AddRow ==
    /\ gpc = "build"
    /\ Len(rows) < MaxRows
    /\ \E d \in DatePool, h \in HourPool, v \in ValuePool :
          rows' = Append(rows, [date |-> d, hour_utc |-> h, value |-> v])
    /\ UNCHANGED <<batchVars, cleanVars, calls, df, met_variables, dates, hours,
                   var_matrix, gpc>>

\* lines 378-411: read the table, drop the empty columns
ReadCsv ==
    /\ gpc = "build"
    /\ rows # <<>>
    /\ LET column == ReadColumn(rows)
       IN /\ df' = [k \in DOMAIN rows |->
                      [date |-> rows[k].date, hour_utc |-> rows[k].hour_utc,
                       value |-> column[k]]]
          /\ met_variables' = IF KeepsColumn(column) THEN <<"TEMP">> ELSE <<>>
    /\ gpc' = "read"
    /\ UNCHANGED <<batchVars, cleanVars, calls, rows, dates, hours, var_matrix>>

\* lines 423-449: the timestamp of each row, its date and its hour; the rows
\* without a timestamp are dropped
ProcessDatetime ==
    /\ gpc = "read"
    /\ LET stamped == [k \in DOMAIN df |->
                          [datetime |-> ToDatetime(df[k].date, HourClean(df[k].hour_utc)),
                           value |-> df[k].value]]
           kept == SelectSeq(stamped, LAMBDA r : r.datetime # NaT)
       IN df' = [k \in DOMAIN kept |->
                    [datetime |-> kept[k].datetime,
                     date_only |-> kept[k].datetime.date,
                     hour_only |-> kept[k].datetime.hour,
                     value |-> kept[k].value]]
    /\ gpc' = "timed"
    /\ UNCHANGED <<batchVars, cleanVars, calls, rows, met_variables, dates, hours,
                   var_matrix>>

\* lines 451-453: the sorted distinct dates and hours
BuildAxes ==
    /\ gpc = "timed"
    /\ dates' = SortedSeq({df[k].date_only : k \in DOMAIN df})
    /\ hours' = SortedSeq({df[k].hour_only : k \in DOMAIN df})
    /\ gpc' = "axes"
    /\ UNCHANGED <<batchVars, cleanVars, calls, rows, df, met_variables, var_matrix>>

\* lines 471-493: the grid of each variable column
FillGrid ==
    /\ gpc = "axes"
    /\ var_matrix' = IF met_variables = <<>> THEN <<>>
                     ELSE [a \in DOMAIN dates |->
                             [b \in DOMAIN hours |-> Cell(df, dates[a], hours[b])]]
    /\ gpc' = "grid"
    /\ UNCHANGED <<batchVars, cleanVars, calls, rows, df, met_variables, dates, hours>>

NextGrid == AddRow \/ ReadCsv \/ ProcessDatetime \/ BuildAxes \/ FillGrid

SpecGrid == InitGrid /\ [][NextGrid]_vars

\* ------------------------------------------------- concurrent invocations
\* Two invocations of convert_csvs_to_netcdf run at the same time over the
\* same folder with all_files=True.  Each has its own locals; the folder and
\* the outputs are shared.  An invocation can be overtaken between the
\* existence test (723) and the write (539), and while it writes.
Invocations == {"first", "second"}

\* the batch variables an invocation in calls does not use, and the inputs
idleVars == <<dirExists, dirFiles, content, preamble, netcdfDir,
              region, uf, wmo_code, all_files, skip_existing, pc,
              all_csv_files, filtered_files, i,
              saved_paths, failed_files, skipped_files, converted_files,
              raised, invoked, result, prev, runs>>

\* lines 706-710: the locals of an invocation entering the loop
Locals(selection, skip) ==
    [pc |-> "check", filtered_files |-> selection, i |-> 1, skip_existing |-> skip,
     saved_paths |-> <<>>, failed_files |-> <<>>, skipped_files |-> <<>>,
     converted_files |-> 0, overlapped |-> FALSE]

InitConcurrent ==
    /\ dirExists = TRUE
    /\ dirFiles \in {l \in Listings : Glob(l) # <<>> /\ Len(l) <= MaxShared}
    /\ content \in {c \in [{n \in Range(dirFiles) : MatchesPattern(n)} -> Kinds] :
                        Cardinality({n \in DOMAIN c : c[n] # "valid"}) <= MaxBad}
    /\ preamble = [n \in DOMAIN content |-> StandardPreamble]
    /\ InitCall
    /\ InitClean
    /\ rows = <<>> /\ df = <<>> /\ met_variables = <<>>
    /\ dates = <<>> /\ hours = <<>> /\ var_matrix = <<>>
    /\ gpc = "off"
    /\ calls \in [Invocations ->
                    {Locals(FilterFiles(Glob(dirFiles), TRUE, None, None, None), skip) :
                        skip \in BOOLEAN}]

\* the file the invocation is at, and its output path
CurrentFile(c) == calls[c].filtered_files[calls[c].i]
CurrentOutput(c) == OutputPath(CurrentFile(c))

\* lines 722-731: the existence test and the skip-existing branch
CheckExisting(c) ==
    /\ calls[c].pc = "check"
    /\ calls[c].i <= Len(calls[c].filtered_files)
    /\ IF Exists(disk, CurrentOutput(c)) /\ calls[c].skip_existing
       THEN calls' = [calls EXCEPT
                        ![c].skipped_files = Append(@, CurrentFile(c)),
                        ![c].saved_paths = Append(@, CurrentOutput(c)),
                        ![c].i = @ + 1]
       ELSE calls' = [calls EXCEPT ![c].pc = "convert"]
    /\ UNCHANGED <<idleVars, disk, cleanVars, gridVars>>

\* lines 738-742 up to line 539: the pipeline parses the file and to_netcdf
\* opens the output; a file that cannot be parsed raises before that
BeginWrite(c) ==
    /\ calls[c].pc = "convert"
    /\ LET f == CurrentFile(c)
           out == CurrentOutput(c)
           run == Pipeline(content[PathName(f)])
           others == {o \in Invocations \ {c} :
                         calls[o].pc = "writing" /\ CurrentOutput(o) = out}
       IN IF run.wrote = "nothing"
          THEN /\ calls' = [calls EXCEPT ![c].failed_files = RecordFailure(@, f),
                                         ![c].i = @ + 1,
                                         ![c].pc = "check"]
               /\ UNCHANGED disk
          ELSE /\ disk' = WriteOutput(disk, out, "partial",
                                      ParseIdentity(f, preamble[PathName(f)]))
               /\ calls' = [o \in Invocations |->
                              IF o = c
                              THEN [calls[o] EXCEPT !.pc = "writing",
                                                    !.overlapped = (others # {})]
                              ELSE IF o \in others
                              THEN [calls[o] EXCEPT !.overlapped = TRUE]
                              ELSE calls[o]]
    /\ UNCHANGED <<idleVars, cleanVars, gridVars>>

\* what the write ends in: as the file's content makes it end, or, when
\* another invocation wrote the same path meanwhile, in an error or in a
\* damaged output as well
WriteOutcomes(kind, overlapped) ==
    {Pipeline(kind)} \cup
    (IF overlapped
     THEN {[exc |-> "RuntimeError", wrote |-> "partial"], [exc |-> "none", wrote |-> "partial"]}
     ELSE {})

\* line 539 to line 763: to_netcdf ends and the outcome is recorded
EndWrite(c) ==
    /\ calls[c].pc = "writing"
    /\ LET f == CurrentFile(c)
           out == CurrentOutput(c)
       IN \E run \in WriteOutcomes(content[PathName(f)], calls[c].overlapped) :
             /\ disk' = [disk EXCEPT ![out].complete = (run.wrote = "complete")]
             /\ IF run.exc = "none"
                THEN calls' = [calls EXCEPT ![c].saved_paths = Append(@, out),
                                            ![c].converted_files = @ + 1,
                                            ![c].i = @ + 1,
                                            ![c].pc = "check",
                                            ![c].overlapped = FALSE]
                ELSE calls' = [calls EXCEPT ![c].failed_files = RecordFailure(@, f),
                                            ![c].i = @ + 1,
                                            ![c].pc = "check",
                                            ![c].overlapped = FALSE]
    /\ UNCHANGED <<idleVars, cleanVars, gridVars>>

\* lines 769-798: the loop is over
Finish(c) ==
    /\ calls[c].pc = "check"
    /\ calls[c].i > Len(calls[c].filtered_files)
    /\ calls' = [calls EXCEPT ![c].pc = "returned"]
    /\ UNCHANGED <<idleVars, disk, cleanVars, gridVars>>

NextConcurrent ==
    \E c \in Invocations : CheckExisting(c) \/ BeginWrite(c) \/ EndWrite(c) \/ Finish(c)

SpecConcurrent == InitConcurrent /\ [][NextConcurrent]_vars

\* ================================================================ claims
FinalKinds == {"concluido", "nenhum_processado"}
\* the call returned from the end of the per-file loop
ReturnedFromLoop == pc = "returned" /\ result.message.kind \in FinalKinds

\* C1: calling the batch twice with skip_existing=true and no new input files,
\* the second call converts nothing and skips exactly as many files as the
\* first call converted or skipped, also when files failed in the first call.
C1_IdempotentRerun ==
    (pc = "returned" /\ runs >= 2 /\ skip_existing) =>
        /\ result.converted_files = 0
        /\ result.skipped_files = prev.converted_files + prev.skipped_files

\* C2: a raising per-file pipeline never makes the batch call raise; the file
\* is recorded in failed_files (by name in the result), and every selected
\* file is still processed: the loop runs to the end of the selection and each
\* selected file was either skipped or handed to the pipeline.
C2_FailureIsolation ==
    /\ ~raised /\ pc # "raised"
    /\ \A k \in DOMAIN invoked :
          Pipeline(content[PathName(invoked[k])]).exc # "none"
              => invoked[k] \in Range(failed_files)
    /\ ReturnedFromLoop =>
          /\ \A k \in DOMAIN filtered_files :
                filtered_files[k] \in Range(invoked) \cup Range(skipped_files)
          /\ \A k \in DOMAIN invoked :
                Pipeline(content[PathName(invoked[k])]).exc # "none"
                    => PathName(invoked[k]) \in Range(result.failed_files)

\* C2 witness: a call returned after a file failed and a later file of the
\* selection was converted.
C2_Witness ==
    /\ ReturnedFromLoop
    /\ \E a, b \in DOMAIN filtered_files :
          /\ a < b
          /\ filtered_files[a] \in Range(failed_files)
          /\ OutputPath(filtered_files[b]) \in Range(saved_paths)
          /\ filtered_files[b] \in Range(invoked)

\* the values of a filter argument, and whether one was supplied
FilterValues(fv) ==
    IF fv.t = "None" THEN {} ELSE IF fv.t = "str" THEN {fv.v} ELSE Range(fv.v)
SameIgnoringCase(a, b) == Upper(a) = Upper(b)
\* the filename segment (after removing '.CSV') at position n, counted from 1
Segment(f, n) == Parts(f)[n]

\* a call with all_files=false has just computed its selection: it is about
\* to enter the loop, or has returned because nothing was selected
SelectionMade ==
    /\ ~all_files
    /\ all_csv_files # <<>>
    /\ \/ pc = "loop" /\ i = 1
       \/ pc = "returned" /\ filtered_files = <<>>

\* C3 as stated: a candidate is selected iff for every supplied filter its
\* segment equals, ignoring case, at least one of the filter's values.
C3_AsStated ==
    SelectionMade =>
        \A k \in DOMAIN all_csv_files :
            LET f == all_csv_files[k] IN
            (f \in Range(filtered_files)) <=>
                /\ region.t # "None" =>
                      \E v \in FilterValues(region) : SameIgnoringCase(Segment(f, 2), v)
                /\ uf.t # "None" =>
                      \E v \in FilterValues(uf) : SameIgnoringCase(Segment(f, 3), v)
                /\ wmo_code.t # "None" =>
                      \E v \in FilterValues(wmo_code) : SameIgnoringCase(Segment(f, 4), v)

\* C3 amended: a candidate is selected iff its name has at least 5
\* underscore-delimited segments and, for every filter supplied with at least
\* one value, its segment equals, ignoring case, at least one of the values (a
\* filter given as an empty list is ignored).  A single value selects what its
\* one-element list selects, and what its uppercase form selects.
C3_FilterPredicate ==
    SelectionMade =>
        /\ \A k \in DOMAIN all_csv_files :
              LET f == all_csv_files[k] IN
              (f \in Range(filtered_files)) <=>
                  /\ Len(Parts(f)) >= 5
                  /\ FilterValues(region) # {} =>
                        \E v \in FilterValues(region) : SameIgnoringCase(Segment(f, 2), v)
                  /\ FilterValues(uf) # {} =>
                        \E v \in FilterValues(uf) : SameIgnoringCase(Segment(f, 3), v)
                  /\ FilterValues(wmo_code) # {} =>
                        \E v \in FilterValues(wmo_code) : SameIgnoringCase(Segment(f, 4), v)
        /\ uf.t = "str" =>
              /\ FilterFiles(all_csv_files, FALSE, region, List(<<uf.v>>), wmo_code)
                    = filtered_files
              /\ FilterFiles(all_csv_files, FALSE, region, Str(Upper(uf.v)), wmo_code)
                    = filtered_files

\* C3 witness: uf="df" selected a file whose segment is "DF" and left out
\* another candidate.
C3_Witness ==
    /\ SelectionMade
    /\ uf = Str(<<"df">>)
    /\ CsvPath(NameDF) \in Range(filtered_files)
    /\ Len(filtered_files) < Len(all_csv_files)

\* C4: a selected file whose output exists when the loop reaches it, with
\* skip_existing set, is not handed to the pipeline, its output is not
\* rewritten, it is counted as skipped and its output path is listed in
\* saved_paths; the returned result carries both.
C4_SkipExisting ==
    /\ [][(/\ pc = "loop" /\ i <= Len(filtered_files) /\ skip_existing
           /\ OutputPath(filtered_files[i]) \in DOMAIN disk)
          => /\ disk' = disk
             /\ invoked' = invoked
             /\ skipped_files' = Append(skipped_files, filtered_files[i])
             /\ saved_paths' = Append(saved_paths, OutputPath(filtered_files[i]))
             /\ converted_files' = converted_files
             /\ failed_files' = failed_files]_vars
    /\ [](ReturnedFromLoop =>
            /\ result.skipped_files = Len(skipped_files)
            /\ \A k \in DOMAIN skipped_files :
                  /\ OutputPath(skipped_files[k]) \in Range(result.saved_paths)
                  /\ skipped_files[k] \notin Range(invoked))

\* C4 witness: a call returned having skipped a file whose output existed.
C4_Witness ==
    /\ ReturnedFromLoop
    /\ skip_existing
    /\ result.skipped_files >= 1
    /\ \E k \in DOMAIN skipped_files : OutputPath(skipped_files[k]) \in DOMAIN disk

\* C5: in every returned result, early returns included, success is true
\* exactly when converted_files + skipped_files >= 1.
C5_SuccessIff ==
    pc = "returned" =>
        (result.success <=> result.converted_files + result.skipped_files >= 1)

\* C5 witness: a result that is successful through skipped files alone.
C5_Witness ==
    /\ pc = "returned"
    /\ result.success
    /\ result.converted_files = 0
    /\ result.skipped_files >= 1

\* the filter fields that are active: supplied with at least one value
ActiveFields ==
    {fld \in {"region", "uf", "wmo_code"} :
        FilterValues(CASE fld = "region" -> region
                       [] fld = "uf" -> uf
                       [] fld = "wmo_code" -> wmo_code) # {}}

C7_TotalFound ==
    (pc = "returned" /\ dirExists /\ \E n \in Range(dirFiles) : MatchesPattern(n)) =>
        result.total_files_found
            = Cardinality({n \in Range(dirFiles) : MatchesPattern(n)})

\* C7 witness: files for DF, SP and MG, uf=["DF","sp"]: MG is left out of the
\* selection and total_files_found is 3.
C7_Witness ==
    /\ ReturnedFromLoop
    /\ dirFiles = <<NameDF, NameSP, NameMG>>
    /\ uf = List(<< <<"DF">>, <<"sp">> >>)
    /\ filtered_files = <<CsvPath(NameDF), CsvPath(NameSP)>>
    /\ result.total_files_found = 3

\* ^[A-Za-z_][A-Za-z0-9_]*$
IsIdentifier(s) ==
    /\ s # <<>>
    /\ s[1] \in AsciiLetters \cup {"_"}
    /\ \A k \in DOMAIN s : s[k] \in AsciiLetters \cup AsciiDigits \cup {"_"}

\* C8: every name clean_variable_names produces matches
\* ^[A-Za-z_][A-Za-z0-9_]*$, whatever the raw label.
C8_IdentifierNames ==
    cpc \in {"cleaned", "recleaned"} => \A k \in DOMAIN cleaned_vars : IsIdentifier(cleaned_vars[k][1])

\* C9: sanitizing already-sanitized names changes nothing: clean_variable_names
\* applied to its own result returns the same names with the same data.
C9_Idempotent ==
    cpc = "recleaned" => recleaned_vars = cleaned_vars

\* C9 witness: the re-sanitized names include one that got the 'var_' prefix
\* and the 'unknown_variable' placeholder.
C9_Witness ==
    /\ cpc = "recleaned"
    /\ \E k \in DOMAIN recleaned_vars :
          /\ recleaned_vars[k][1] = <<"v", "a", "r", "_", "1">>
          /\ data_vars[k][1] # recleaned_vars[k][1]
    /\ \E k \in DOMAIN recleaned_vars : recleaned_vars[k][1] = Placeholder(<<>>)

\* C10: distinct raw labels never end up under one output name: the mapping
\* returned has as many entries as the one passed in.
C10_NoMerge ==
    cpc \in {"cleaned", "recleaned"} => Len(cleaned_vars) = Len(data_vars)

\* the selected files the loop has gone through so far
Processed == {filtered_files[k] : k \in 1..(i - 1)}

\* C15: throughout the loop, after i - 1 selected files were gone through,
\* converted_files + |skipped_files| + |failed_files| = i - 1 and each of
\* these files is in exactly one outcome (skipped and failed share no file,
\* list no file twice and list processed files only, the rest being the
\* converted ones); in the result returned from the loop the three counts
\* add up to the number of selected files.
C15_OutcomePartition ==
    /\ pc = "loop" =>
          /\ converted_files + Len(skipped_files) + Len(failed_files) = i - 1
          /\ Range(skipped_files) \cap Range(failed_files) = {}
          /\ Range(skipped_files) \cup Range(failed_files) \subseteq Processed
          /\ Cardinality(Range(skipped_files)) = Len(skipped_files)
          /\ Cardinality(Range(failed_files)) = Len(failed_files)
    /\ ReturnedFromLoop =>
          result.converted_files + result.skipped_files + Len(result.failed_files)
              = Len(filtered_files)

\* C15 witness: a call returned from the loop with a converted, a skipped and
\* a failed file.
C15_Witness ==
    /\ ReturnedFromLoop
    /\ result.converted_files >= 1
    /\ result.skipped_files >= 1
    /\ Len(result.failed_files) >= 1

\* C16: during and after the loop, |saved_paths| = converted_files +
\* |skipped_files|, every path in saved_paths is on disk, and the output path
\* of a file recorded in failed_files is not in saved_paths of the same run.
C16_SavedPaths ==
    pc \in {"loop", "returned"} =>
        /\ Len(saved_paths) = converted_files + Len(skipped_files)
        /\ \A k \in DOMAIN saved_paths : Exists(disk, saved_paths[k])
        /\ \A k \in DOMAIN failed_files :
              OutputPath(failed_files[k]) \notin Range(saved_paths)

\* the name's stem has fewer than 5 underscore-delimited segments
ShortName(name) == Len(Split(Stem(CsvPath(name)), "_")) < 5

\* the value the preamble gives for a key: the second field of the last of
\* its lines that has two fields and the key, colon dropped, as the first
PreambleValue(lines, key) ==
    LET hits == {n \in 1..PreambleLines :
                    Len(lines[n]) >= 2 /\ Replace(lines[n][1], ":", <<>>) = key}
    IN IF hits = {} THEN <<"Unknown">>
       ELSE lines[CHOOSE n \in hits : \A m \in hits : m <= n][2]

\* the candidates of the folder whose name is short
ShortCandidates == {n \in Range(dirFiles) : MatchesPattern(n) /\ ShortName(n)}

\* the dataset at the file's output path has the identity of its preamble
IdentityFromPreamble(name) ==
    LET ds == disk[OutputPath(CsvPath(name))].ds
        lines == preamble[name]
    IN /\ ds.attrs.region = PreambleValue(lines, <<"REGIAO">>)
       /\ ds.attrs.uf = PreambleValue(lines, <<"UF">>)
       /\ ds.attrs.wmo_code = PreambleValue(lines, <<"CODIGO (WMO)">>)
       /\ ds.attrs.station = PreambleValue(lines, <<"ESTACAO">>)
       /\ ds.coords.region = <<ds.attrs.region>>
       /\ ds.coords.uf = <<ds.attrs.uf>>
       /\ ds.coords.wmo_code = <<ds.attrs.wmo_code>>

\* C12 as stated: a valid candidate whose name has fewer than 5 segments is,
\* once a call over its folder has returned, converted with the identity of
\* its preamble, and is neither failed nor dropped.
C12_AsStated ==
    \A name \in ShortCandidates :
        (pc = "returned" /\ content[name] = "valid") =>
            /\ Exists(disk, OutputPath(CsvPath(name)))
            /\ IdentityFromPreamble(name)
            /\ CsvPath(name) \in Range(filtered_files)
            /\ CsvPath(name) \notin Range(failed_files)

\* C12 amended: whenever the pipeline wrote the output of a file whose name
\* has fewer than 5 segments, the dataset carries region, uf, wmo_code and
\* station of the preamble, looked up by key with 'Unknown' for an absent key;
\* in a batch with all_files=true a valid such file is converted or skipped,
\* never failed; with all_files=false it is never selected, so it is neither
\* handed to the pipeline nor listed as skipped or failed.
C12_Fallback ==
    \A name \in ShortCandidates :
        /\ Exists(disk, OutputPath(CsvPath(name))) => IdentityFromPreamble(name)
        /\ (ReturnedFromLoop /\ all_files /\ content[name] = "valid") =>
              /\ OutputPath(CsvPath(name)) \in Range(saved_paths)
              /\ disk[OutputPath(CsvPath(name))].complete
              /\ CsvPath(name) \notin Range(failed_files)
        /\ (pc \in {"loop", "returned"} /\ ~all_files) =>
              CsvPath(name) \notin Range(filtered_files) \cup Range(invoked)
                                  \cup Range(skipped_files) \cup Range(failed_files)

\* C12 witness: a batch with all_files=true returned after it converted a
\* file with a short name whose preamble gives the region in lower case or
\* has no region key, and the uf in lower case.
C12_Witness ==
    /\ ReturnedFromLoop /\ all_files /\ result.converted_files = 1
    /\ \E name \in ShortCandidates :
          /\ disk[OutputPath(CsvPath(name))].complete
          /\ disk[OutputPath(CsvPath(name))].ds.attrs.region \in {<<"co">>, <<"Unknown">>}
          /\ disk[OutputPath(CsvPath(name))].ds.attrs.uf = <<"df">>

\* the string has no lower-case letter
IsUpper(v) == v = Upper(v)

\* C13: in every dataset written, the region, uf and wmo_code values, as
\* coordinates and as global attributes, are upper case, whatever the case
\* of the filename segments or of the preamble values they came from.
C13_UppercaseIdentity ==
    \A out \in DOMAIN disk :
        disk[out].complete =>
            LET ds == disk[out].ds
            IN /\ IsUpper(ds.attrs.region) /\ IsUpper(ds.attrs.uf)
               /\ IsUpper(ds.attrs.wmo_code)
               /\ \A k \in {1} :
                     /\ IsUpper(ds.coords.region[k]) /\ IsUpper(ds.coords.uf[k])
                     /\ IsUpper(ds.coords.wmo_code[k])

\* the position of x in the sorted axis
IndexOf(axis, x) == CHOOSE k \in DOMAIN axis : axis[k] = x

\* the data lines whose date and hour make a timestamp
Surviving == {k \in DOMAIN rows :
                ToDatetime(rows[k].date, HourClean(rows[k].hour_utc)) # NaT}

\* what the claim expects at the cell of a line: float(v) for a numeric raw
\* value in decimal-comma notation, NaN for an empty or unparsable one
ExpectedCell(raw) ==
    IF raw \notin NaValues /\ ToFloat(raw, ",").ok
    THEN Float(ToFloat(raw, ",").v)
    ELSE NaN

\* C11: once the grid of a kept variable column is filled, every surviving
\* data line, with timestamp (d, h) and raw value v, has float(v) at the cell
\* [index of d, index of h] when v is numeric and NaN there when v is empty or
\* unparsable; also the lines that share their date and hour-of-day with
\* another line.
C11_RoundTrip ==
    (gpc = "grid" /\ met_variables # <<>>) =>
        \A k \in Surviving :
            LET stamp == ToDatetime(rows[k].date, HourClean(rows[k].hour_utc))
            IN var_matrix[IndexOf(dates, stamp.date)][IndexOf(hours, stamp.hour)]
                   = ExpectedCell(rows[k].value)

\* the invocation has passed the existence test for its current file and
\* goes on to write, or is writing
DecidedToWrite(c) == calls[c].pc \in {"convert", "writing"}

\* C14: of two invocations with skip_existing=true that handle the same
\* selected file, never both have decided at the existence test that the
\* output does not exist and go on to write it; when every invocation has
\* skip_existing=true each output is written at most once.
C14_AtomicCheckWrite ==
    /\ \A c, o \in Invocations :
          (c # o /\ calls[c].skip_existing /\ calls[o].skip_existing
              /\ DecidedToWrite(c) /\ DecidedToWrite(o))
          => CurrentOutput(c) # CurrentOutput(o)
    /\ (\A c \in Invocations : calls[c].skip_existing) =>
          \A out \in DOMAIN disk : disk[out].writes <= 1
====
